---- MODULE Spec2Model ----
(***************************************************************************)
(* Model of bench-disk-bonnie.c: the main process running its sequential   *)
(* phases and then do_seekstuff(0, Lseek) and do_seekstuff(1, Lseek2),     *)
(* each of which forks SeekProcCount seeker processes that are fed one-    *)
(* byte tickets through the seek_control pipe and answer with one          *)
(* seeker_report each through the seek_feedback pipe.                      *)
(*                                                                         *)
(* Process 0 is the main process (the coordinator); processes 1..N are the *)
(* seekers of the current do_seekstuff call.  Every process has its own    *)
(* copy of the globals (delta, do_cleanup, last_timestamp, last_cpustamp), *)
(* taken at fork().                                                        *)
(***************************************************************************)
EXTENDS Integers, Sequences, FiniteSets, TLC

\* ------------------------------------------------------------------ bounds
\* Seeks is 100000 in the source.  A run of the model has operationCount
\* perform tickets and is of one of three kinds (see Init):
\*   - SeekProcCount seekers, 0..MaxSeeks tickets, clocks too coarse to move
\*     during the seek phases;
\*   - 1..DutyProcs seekers, DutySeeks tickets (more than one duty cycle of
\*     UpdateSeek probes), coarse clocks;
\*   - SeekProcCount seekers, no perform ticket (every seeker takes its
\*     checkpoints and reports), and either a wall clock that moves or CPU
\*     clocks that move.
MaxSeeks == 2
DutySeeks == 11
DutyProcs == 1
\* Capacity of the seek_control pipe in bytes (65536 on Linux, with
\* Seeks + SeekProcCount = 100003 bytes written to it).
PipeCap == 2
\* In a run with moving clocks the wall clock reaches at most MaxTime and a
\* seeker's CPU clock at most MaxCpu.
MaxTime == 4
MaxCpu == 1
\* File sizes of 1..MaxGB gigabytes, and the default, are looked at.
MaxGB == 4
\* Argument lists of up to MaxArgs arguments are looked at.
MaxArgs == 3

\* --------------------------------------------------------- program constants
UpdateSeek == 10
SeekProcCount == 3

Chunk == 8192
DefaultSize == 24

Main == 0
Workers == 1..SeekProcCount
Procs == {Main} \cup Workers

\* tests_t
Tests == {"Putc", "ReWrite", "FastWrite", "Getc", "FastRead", "Lseek", "Lseek2"}

\* static double delta[TestCount][2], zero-initialised
ZeroDelta == [t \in Tests |-> [Elapsed |-> 0, CPU |-> 0]]

\* double seeker_report[3] before anything is stored in it
NoReport == [CPU |-> 0, StartTime |-> 0, EndTime |-> 0]

VARIABLES
    operationCount,  \* number of perform tickets (Seeks)
    workerCount,     \* number of seekers (SeekProcCount)
    clockMax,        \* the wall clock does not move beyond clockMax
    cpuMax,          \* a seeker's CPU clock does not move beyond cpuMax
    pc,              \* main process: the statement it is at
    whereto,         \* do_seekstuff parameter: "Lseek" or "Lseek2"
    do_write,        \* do_seekstuff parameter
    next,            \* do_seekstuff's loop counter
    seek_tickets,    \* main's ticket buffer
    written,         \* bytes of seek_tickets the write(2) has transferred
    seek_control,    \* bytes in the control pipe
    seek_feedback,   \* reports in the feedback pipe
    first_start,
    last_stop,
    delta,           \* delta[p]: process p's copy of the delta table
    do_cleanup,      \* do_cleanup[p]: process p's copy
    last_timestamp,  \* last_timestamp[p]
    last_cpustamp,   \* last_cpustamp[p]
    now,             \* the wall clock (seconds since basetime)
    cpu,             \* cpu[p]: CPU time used by process p so far
    wpc,             \* wpc[i]: seeker i's position
    ticket,          \* ticket[i]: seeker i's seek_tickets[0]
    lseek_count,     \* lseek_count[i]
    seeker_report,   \* seeker_report[i]: seeker i's report buffer
    wrote,           \* wrote[i]: per probe of seeker i, whether it wrote back
    nread,           \* nread[i]: bytes seeker i has read from seek_control
    nstop,           \* nstop[i]: stop tickets (value 0) among them
    reaped,          \* reaped[i]: main has wait()ed for seeker i
    flushFailed,     \* flushFailed[i]: seeker i's fsync after its loop failed
    received,        \* reports main has read in this do_seekstuff call
    returned,        \* the phases whose do_seekstuff call has returned
    fileExists,      \* the test file exists in the directory
    created,         \* the test file has been created by newfile(.., 1)
    exitStatus,      \* how the main process ended
    diag,            \* messages io_error has printed (any process)
    argv,            \* the arguments after the program's name
    file_size,       \* the global file_size as lines 361-380 leave it (in GB)
    long_bits,       \* width of the build's long: 64 (LP64) or 32 (ILP32)
    rnd,             \* what random() returned at line 250
    where,           \* doseek's parameter where
    probe,           \* doseek's probe
    reportOut        \* what report() printed: << >> or <<delta table>>

mainVars == <<pc, whereto, do_write, next, seek_tickets, written, first_start,
              last_stop, received, returned, exitStatus, reportOut>>
pipeVars == <<seek_control, seek_feedback>>
globVars == <<delta, do_cleanup, last_timestamp, last_cpustamp>>
clockVars == <<now, cpu>>
workerVars == <<wpc, ticket, lseek_count, seeker_report, wrote, nread, nstop,
                reaped, flushFailed>>
fileVars == <<fileExists, created>>
argVars == <<argv, file_size>>
posVars == <<long_bits, rnd, where, probe>>
\* what the steps of the phases leave alone: the configuration of the run,
\* the arguments, and the seek position of the probe looked at on its own
cfgVars == <<operationCount, workerCount, clockMax, cpuMax, argVars, posVars>>
vars == <<cfgVars, mainVars, pipeVars, globVars, clockVars, workerVars,
          fileVars, diag>>

\* ------------------------------------------------- long long arithmetic
\* A non-negative integer of up to 75 bits is a sequence of Limbs limbs of
\* LimbBits bits each, least significant first.
LimbBase == 2^15
Limbs == 1..5
Zero == [k \in Limbs |-> 0]

\* the limbs of n, for 0 <= n < 2^31
Wide(n) == [k \in Limbs |-> IF k = 1 THEN n % LimbBase
                            ELSE IF k = 2 THEN (n \div LimbBase) % LimbBase
                            ELSE IF k = 3 THEN n \div (LimbBase * LimbBase)
                            ELSE 0]

\* carries propagated from limb k on
RECURSIVE Carry(_, _)
Carry(s, k) == IF k = 1 THEN 0 ELSE (s[k - 1] + Carry(s, k - 1)) \div LimbBase
Normal(s) == [k \in Limbs |-> (s[k] + Carry(s, k)) % LimbBase]

AddWide(a, b) == Normal([k \in Limbs |-> a[k] + b[k]])
MulSmall(a, d) == Normal([k \in Limbs |-> a[k] * d])
ShiftUp(a, j) == [k \in Limbs |-> IF k > j THEN a[k - j] ELSE 0]
ShiftDown(a, j) == [k \in Limbs |-> IF k + j \in Limbs THEN a[k + j] ELSE 0]

RECURSIVE MulFrom(_, _, _)
MulFrom(a, b, j) ==
    IF j \notin Limbs THEN Zero
    ELSE AddWide(ShiftUp(MulSmall(a, b[j]), j - 1), MulFrom(a, b, j + 1))
MulWide(a, b) == MulFrom(a, b, 1)

\* division by d, 1 <= d <= LimbBase: RemFrom(a, d, k) is what is left of
\* the limbs above k
RECURSIVE RemFrom(_, _, _)
RemFrom(a, d, k) ==
    IF k \notin Limbs THEN 0
    ELSE (RemFrom(a, d, k + 1) * LimbBase + a[k]) % d
DivSmall(a, d) ==
    [k \in Limbs |-> (RemFrom(a, d, k + 1) * LimbBase + a[k]) \div d]
ModSmall(a, d) == RemFrom(a, d, 1)

RECURSIVE LessFrom(_, _, _)
LessFrom(a, b, k) ==
    IF k \notin Limbs THEN FALSE
    ELSE IF a[k] # b[k] THEN a[k] < b[k]
    ELSE LessFrom(a, b, k - 1)
Less(a, b) == LessFrom(a, b, 5)

\* --------------------------------------------------------------- helpers
Min(a, b) == IF a < b THEN a ELSE b
Max(a, b) == IF a > b THEN a ELSE b

RECURSIVE SumOver(_, _)
SumOver(f, S) ==
    IF S = {} THEN 0
    ELSE LET x == CHOOSE y \in S : TRUE IN f[x] + SumOver(f, S \ {x})

RECURSIVE Repeat(_, _)
Repeat(b, n) == IF n <= 0 THEN << >> ELSE <<b>> \o Repeat(b, n - 1)

Active == 1..workerCount

\* time_so_far(): a clock that never runs backwards and moves at most one
\* tick between two samples
TimeReads(t) == t..Min(t + 1, Max(t, clockMax))

\* cpu_so_far(): the calling process's own CPU time, never decreasing
CpuReads(c) == c..Min(c + 1, Max(c, cpuMax))

\* ------------------------------------------------- the code's computations
\* faulty variant: one perform ticket too many in the buffer
SeekTickets_OneMore == Repeat(1, operationCount + 1) \o Repeat(0, workerCount)

\* faulty variant: one stop ticket too few in the buffer
SeekTickets_FewerStops == Repeat(1, operationCount) \o Repeat(0, workerCount - 1)

\* faulty variant: the first stop ticket goes in before the last perform
\* ticket
SeekTickets_StopEarly ==
    Repeat(1, operationCount - 1) \o <<0>>
      \o Repeat(1, Min(operationCount, 1)) \o Repeat(0, workerCount - 1)

\* lines 219-222: Seeks tickets of value 1, then SeekProcCount of value 0
SeekTickets == Repeat(1, operationCount) \o Repeat(0, workerCount)

\* faulty variant: the loop does not look at the ticket
KeepSeeking_Always(b) == TRUE

\* faulty variant: the loop goes on while the ticket is 0
KeepSeeking_Inverted(b) == b = 0

\* line 248: while(seek_tickets[0])
KeepSeeking(b) == b # 0

\* faulty variant: the wrong period
Update_HalfPeriod(count) == (count % (UpdateSeek \div 2)) = 0

\* line 251: ((lseek_count++ % UpdateSeek) == 0)
Update(count) == (count % UpdateSeek) = 0

\* faulty variant: every probe of a phase with writes writes back
DoseekWrites_Always(update, do_touch) == do_touch

\* line 684: if (update && do_touch)
DoseekWrites(update, do_touch) == update /\ do_touch

\* faulty variant: the collecting loop stops one report early
MoreReports_Short(n) == n < workerCount - 1

\* line 285: for (next = 0; next < SeekProcCount; next++)
MoreReports(n) == n < workerCount

\* faulty variant: = instead of +=
AddCpu_Overwrite(old, rep) == rep.CPU

\* line 296: delta[whereto][CPU] += seeker_report[CPU]
AddCpu(old, rep) == old + rep.CPU

\* faulty variant: the comparison the wrong way round
FirstStart_Latest(n, fs, rep) ==
    IF n = 0 THEN rep.StartTime
    ELSE IF fs > rep.StartTime THEN fs ELSE rep.StartTime

\* lines 297-305
FirstStart(n, fs, rep) ==
    IF n = 0 THEN rep.StartTime
    ELSE IF fs < rep.StartTime THEN fs ELSE rep.StartTime

\* lines 297-307
LastStop(n, ls, rep) ==
    IF n = 0 THEN rep.EndTime
    ELSE IF ls > rep.EndTime THEN ls ELSE rep.EndTime

\* line 314: delta[whereto][Elapsed] = last_stop - first_start
SeekElapsed(ls, fs) == ls - fs

\* get_delta_t(test), lines 589-597, with t and c the two clock samples
get_delta_t(tbl, test, t, c, lt, lc) ==
    [tbl EXCEPT ![test] = [Elapsed |-> t - lt, CPU |-> c - lc]]

\* what report() reads of the delta table, lines 520-549
Reported == {"FastWrite", "ReWrite", "FastRead", "Lseek", "Lseek2"}
ReportLine(p) == [by |-> p, table |-> [t \in Reported |-> delta[p][t]]]

\* line 250: the constant 0xFFFFFFFF
Multiplier == AddWide(MulWide(Wide(65535), Wide(65536)), Wide(65535))

\* the low 32 bits of p
Low32(p) == [k \in Limbs |-> IF k <= 2 THEN p[k]
                             ELSE IF k = 3 THEN p[3] % 4 ELSE 0]

\* line 250: random() * 0xFFFFFFFF.  With a 64-bit long the constant is
\* converted to long and the product is the product of the integers as long
\* as that is below 2^63; with a 32-bit long both are converted to unsigned
\* long and the product is taken modulo 2^32.
Product(r, bits) ==
    IF bits = 64 THEN MulWide(Wide(r), Multiplier)
    ELSE Low32(MulWide(Wide(r), Multiplier))

\* line 381: file_size *= (1024 * 1024 * 1024)
FileBytes(gb) == MulWide(Wide(gb), Wide(1024 * 1024 * 1024))

\* p % file_size for a file_size of gb * 2^30 bytes, 1 <= gb < 2^15: the
\* low 30 bits of p stay, the bits above them are reduced modulo gb
ModSize(p, gb) ==
    [k \in Limbs |-> IF k <= 2 THEN p[k]
                     ELSE IF k = 3 THEN ModSmall(ShiftDown(p, 2), gb) ELSE 0]

\* line 250: (long long) ((random() * 0xFFFFFFFF) % file_size)
SeekWhere(r, gb, bits) == ModSize(Product(r, bits), gb)

\* faulty variant: no alignment
Probe_Unaligned(w) == w

\* line 677: probe = (where / Chunk) * Chunk
Probe(w) == MulSmall(DivSmall(w, Chunk), Chunk)

\* ---------------------------------------------------------- process states
Alive(i) == wpc[i] \in {"Spawned", "AwaitingStart", "Seek", "ReadTicket",
                        "Draining", "Reporting", "Sending", "Exiting"}
Zombie(i) == wpc[i] \in {"Terminated", "Failed", "Killed"} /\ ~reaped[i]
MainGone == pc = "Gone"

\* Who holds which end of the pipes.  A seeker holds all four ends from
\* fork() until lines 235-236, then seek_control[0] and seek_feedback[1]
\* until it ends; main holds seek_control[1] and seek_feedback[0] as long
\* as it lives, and has closed the other two ends before it writes (276-277).
Unsettled(i) == wpc[i] = "Spawned"
ControlHasReader == \E i \in Active : Alive(i)
ControlHasWriter == ~MainGone \/ \E i \in Active : Unsettled(i)
FeedbackHasReader == ~MainGone \/ \E i \in Active : Unsettled(i)
FeedbackHasWriter == \E i \in Active : Alive(i)

\* cleanup(), lines 169-175, run by process p, and the process ending
CleanupFile(p) == IF do_cleanup[p] THEN FALSE ELSE fileExists
CleanupReport(p) == IF do_cleanup[p] THEN Append(reportOut, ReportLine(p))
                    ELSE reportOut

\* exit(status) in the main process: the atexit hook, then the process is gone
MainExit(status) ==
    /\ fileExists' = CleanupFile(Main)
    /\ reportOut' = CleanupReport(Main)
    /\ exitStatus' = status
    /\ pc' = "Gone"

\* ------------------------------------------------------------------- Init
ConfigOK(n, w, tmax, cmax) ==
    \/ n <= MaxSeeks /\ w = SeekProcCount /\ tmax = 0 /\ cmax = 0
    \/ n = DutySeeks /\ w <= DutyProcs /\ tmax = 0 /\ cmax = 0
    \/ n = 0 /\ w = SeekProcCount /\ tmax = MaxTime /\ cmax = 0
    \/ n = 0 /\ w = SeekProcCount /\ tmax = 0 /\ cmax = MaxCpu

InitRest ==
    /\ whereto = "none"
    /\ do_write = FALSE
    /\ next = 0
    /\ seek_tickets = << >>
    /\ written = 0
    /\ seek_control = << >>
    /\ seek_feedback = << >>
    /\ first_start = 0
    /\ last_stop = 0
    /\ delta = [p \in Procs |-> ZeroDelta]
    /\ do_cleanup = [p \in Procs |-> TRUE]
    /\ last_timestamp = [p \in Procs |-> 0]
    /\ last_cpustamp = [p \in Procs |-> 0]
    /\ now = 0
    /\ cpu = [p \in Procs |-> 0]
    /\ wpc = [i \in Workers |-> "none"]
    /\ ticket = [i \in Workers |-> 0]
    /\ lseek_count = [i \in Workers |-> 0]
    /\ seeker_report = [i \in Workers |-> NoReport]
    /\ wrote = [i \in Workers |-> << >>]
    /\ nread = [i \in Workers |-> 0]
    /\ nstop = [i \in Workers |-> 0]
    /\ reaped = [i \in Workers |-> FALSE]
    /\ flushFailed = [i \in Workers |-> FALSE]
    /\ received = << >>
    /\ returned = {}
    /\ fileExists = FALSE
    /\ created = FALSE
    /\ exitStatus = "running"
    /\ diag = {}
    /\ reportOut = << >>

\* no arguments: file_size keeps its initial value (line 164)
InitArgs ==
    /\ argv = << >>
    /\ file_size = DefaultSize

\* no probe looked at on its own
InitPos ==
    /\ long_bits = 64
    /\ rnd = 0
    /\ where = Zero
    /\ probe = Zero

Init ==
    /\ operationCount \in 0..DutySeeks
    /\ workerCount \in 1..SeekProcCount
    /\ clockMax \in {0, MaxTime}
    /\ cpuMax \in {0, MaxCpu}
    /\ ConfigOK(operationCount, workerCount, clockMax, cpuMax)
    /\ pc = "Create"
    /\ InitRest
    /\ InitArgs
    /\ InitPos

\* the runs with clocks too coarse to move in the seek phases
InitCoarse == Init /\ clockMax = 0 /\ cpuMax = 0

\* ----------------------------------------------- main: sequential phases
\* newfile(filename, &fd, &stream, 1), line 405
CreateFile ==
    /\ pc = "Create"
    /\ fileExists' = TRUE
    /\ created' = TRUE
    /\ pc' = "FastWrite"
    /\ UNCHANGED <<cfgVars, whereto, do_write, next, seek_tickets, written,
                   first_start, last_stop, received, returned, exitStatus,
                   reportOut, pipeVars, globVars, clockVars, workerVars, diag>>

\* timestamp(); the phase's I/O loop; get_delta_t(test).  The loops themselves
\* are not modelled: each takes one tick of wall time and one of CPU time.
SeqPhase(test, from, to) ==
    /\ pc = from
    /\ pc' = to
    /\ last_timestamp' = [last_timestamp EXCEPT ![Main] = now]
    /\ last_cpustamp' = [last_cpustamp EXCEPT ![Main] = cpu[Main]]
    /\ now' = now + 1
    /\ cpu' = [cpu EXCEPT ![Main] = cpu[Main] + 1]
    /\ delta' = [delta EXCEPT ![Main] =
                   get_delta_t(delta[Main], test, now + 1, cpu[Main] + 1,
                               now, cpu[Main])]
    /\ UNCHANGED <<cfgVars, whereto, do_write, next, seek_tickets, written,
                   first_start, last_stop, received, returned, exitStatus,
                   reportOut, pipeVars, do_cleanup, workerVars, fileVars, diag>>

\* lines 406-425
FastWritePhase == SeqPhase("FastWrite", "FastWrite", "ReWrite")
\* lines 428-462
ReWritePhase == SeqPhase("ReWrite", "ReWrite", "FastRead")
\* lines 485-512
FastReadPhase == SeqPhase("FastRead", "FastRead", "Call1")

\* ------------------------------------------------ main: do_seekstuff
\* lines 514/515 and 184-222: the call, the pipes, the ticket buffer
BeginSeek ==
    /\ pc \in {"Call1", "Call2"}
    /\ whereto' = IF pc = "Call1" THEN "Lseek" ELSE "Lseek2"
    /\ do_write' = (pc = "Call2")
    /\ seek_tickets' = SeekTickets
    /\ written' = 0
    /\ seek_control' = << >>
    /\ seek_feedback' = << >>
    /\ first_start' = 0
    /\ last_stop' = 0
    /\ next' = 0
    /\ received' = << >>
    /\ pc' = "Fork"
    \* the seekers of the previous call are gone; their slots are free
    /\ wpc' = [i \in Workers |-> "none"]
    /\ ticket' = [i \in Workers |-> 0]
    /\ lseek_count' = [i \in Workers |-> 0]
    /\ seeker_report' = [i \in Workers |-> NoReport]
    /\ wrote' = [i \in Workers |-> << >>]
    /\ nread' = [i \in Workers |-> 0]
    /\ nstop' = [i \in Workers |-> 0]
    /\ reaped' = [i \in Workers |-> FALSE]
    /\ flushFailed' = [i \in Workers |-> FALSE]
    /\ delta' = [p \in Procs |-> IF p = Main THEN delta[Main] ELSE ZeroDelta]
    /\ do_cleanup' = [p \in Procs |-> IF p = Main THEN do_cleanup[Main] ELSE TRUE]
    /\ last_timestamp' = [p \in Procs |-> IF p = Main THEN last_timestamp[Main] ELSE 0]
    /\ last_cpustamp' = [p \in Procs |-> IF p = Main THEN last_cpustamp[Main] ELSE 0]
    /\ cpu' = [p \in Procs |-> IF p = Main THEN cpu[Main] ELSE 0]
    /\ UNCHANGED <<cfgVars, returned, exitStatus, reportOut, now, fileVars, diag>>

\* faulty variant: the loop forks one seeker too few
MoreForks_Short(n) == n < workerCount - 1

\* line 225: for (next = 0; next < SeekProcCount; next++)
MoreForks(n) == n < workerCount

\* lines 225-229: fork() succeeds; the child is a copy of the parent
ForkWorker ==
    /\ pc = "Fork"
    /\ MoreForks(next)
    /\ LET i == next + 1 IN
        /\ wpc' = [wpc EXCEPT ![i] = "Spawned"]
        /\ ticket' = [ticket EXCEPT ![i] = seek_tickets[1]]
        /\ delta' = [delta EXCEPT ![i] = delta[Main]]
        /\ do_cleanup' = [do_cleanup EXCEPT ![i] = do_cleanup[Main]]
        /\ last_timestamp' = [last_timestamp EXCEPT ![i] = last_timestamp[Main]]
        /\ last_cpustamp' = [last_cpustamp EXCEPT ![i] = last_cpustamp[Main]]
        /\ cpu' = [cpu EXCEPT ![i] = 0]
    /\ next' = next + 1
    /\ pc' = "Fork"
    /\ UNCHANGED <<cfgVars, whereto, do_write, seek_tickets, written,
                   first_start, last_stop, received, returned, exitStatus,
                   reportOut, pipeVars, now, lseek_count, seeker_report,
                   wrote, nread, nstop, reaped, flushFailed, fileVars, diag>>

\* lines 276-280: close the unused ends, sleep(1), enter write(2)
StartEm ==
    /\ pc = "Fork"
    /\ ~MoreForks(next)
    /\ pc' = "Writing"
    /\ written' = 0
    /\ UNCHANGED <<cfgVars, whereto, do_write, next, seek_tickets,
                   first_start, last_stop, received, returned, exitStatus,
                   reportOut, pipeVars, globVars, clockVars, workerVars,
                   fileVars, diag>>

\* lines 280-282: the blocking write(2) of the whole buffer moves bytes into
\* the pipe as room appears and returns when all of them are in
WriteTickets ==
    /\ pc = "Writing"
    /\ ControlHasReader
    /\ \E k \in 1..Min(PipeCap - Len(seek_control), Len(seek_tickets) - written) :
        /\ seek_control' = seek_control \o SubSeq(seek_tickets, written + 1, written + k)
        /\ written' = written + k
        /\ IF written + k = Len(seek_tickets)
           THEN pc' = "Collect" /\ next' = 0
           ELSE pc' = pc /\ next' = next
    /\ UNCHANGED <<cfgVars, whereto, do_write, seek_tickets, first_start,
                   last_stop, received, returned, exitStatus, reportOut,
                   seek_feedback, globVars, clockVars, workerVars, fileVars,
                   diag>>

\* lines 285-308: read one report and fold it into the aggregate
ReadReport ==
    /\ pc = "Collect"
    /\ MoreReports(next)
    /\ seek_feedback # << >>
    /\ LET rep == Head(seek_feedback) IN
        /\ delta' = [delta EXCEPT ![Main][whereto].CPU =
                        AddCpu(delta[Main][whereto].CPU, rep)]
        /\ first_start' = FirstStart(next, first_start, rep)
        /\ last_stop' = LastStop(next, last_stop, rep)
        /\ received' = Append(received, rep)
    /\ seek_feedback' = Tail(seek_feedback)
    /\ pc' = "Wait"
    /\ UNCHANGED <<cfgVars, whereto, do_write, next, seek_tickets, written,
                   returned, exitStatus, reportOut, seek_control, do_cleanup,
                   last_timestamp, last_cpustamp, clockVars, workerVars,
                   fileVars, diag>>

\* lines 309-312: wait() for any child, then the next turn of the loop
WaitChild ==
    /\ pc = "Wait"
    /\ \E i \in Active :
        /\ Zombie(i)
        /\ reaped' = [reaped EXCEPT ![i] = TRUE]
    /\ next' = next + 1
    /\ pc' = "Collect"
    /\ UNCHANGED <<cfgVars, whereto, do_write, seek_tickets, written,
                   first_start, last_stop, received, returned, exitStatus,
                   reportOut, pipeVars, globVars, clockVars, wpc, ticket,
                   lseek_count, seeker_report, wrote, nread, nstop, flushFailed, fileVars,
                   diag>>

\* faulty variant: Elapsed goes into the Lseek row whatever whereto is
SeekReturn_FirstPhase ==
    /\ pc = "Collect"
    /\ ~MoreReports(next)
    /\ delta' = [delta EXCEPT ![Main]["Lseek"].Elapsed =
                    SeekElapsed(last_stop, first_start)]
    /\ returned' = returned \cup {whereto}
    /\ pc' = IF whereto = "Lseek" THEN "Call2" ELSE "Return"
    /\ UNCHANGED <<cfgVars, whereto, do_write, next, seek_tickets, written,
                   first_start, last_stop, received, exitStatus, reportOut,
                   pipeVars, do_cleanup, last_timestamp, last_cpustamp,
                   clockVars, workerVars, fileVars, diag>>

\* lines 285 and 313-315: the loop is over; store Elapsed, return to main
SeekReturn ==
    /\ pc = "Collect"
    /\ ~MoreReports(next)
    /\ delta' = [delta EXCEPT ![Main][whereto].Elapsed =
                    SeekElapsed(last_stop, first_start)]
    /\ returned' = returned \cup {whereto}
    /\ pc' = IF whereto = "Lseek" THEN "Call2" ELSE "Return"
    /\ UNCHANGED <<cfgVars, whereto, do_write, next, seek_tickets, written,
                   first_start, last_stop, received, exitStatus, reportOut,
                   pipeVars, do_cleanup, last_timestamp, last_cpustamp,
                   clockVars, workerVars, fileVars, diag>>

\* line 517: return 0 from main, i.e. exit(0), which runs cleanup()
MainReturn ==
    /\ pc = "Return"
    /\ MainExit("exit0")
    /\ UNCHANGED <<cfgVars, whereto, do_write, next, seek_tickets, written,
                   first_start, last_stop, received, returned, pipeVars,
                   globVars, clockVars, workerVars, created, diag>>

\* ------------------------------------------------------------ the seekers
\* lines 232-239: do_cleanup = 0, close the unused pipe ends, open the file
\* (open without O_CREAT needs the file to exist)
WorkerSetup(i) ==
    /\ wpc[i] = "Spawned"
    /\ fileExists
    /\ do_cleanup' = [do_cleanup EXCEPT ![i] = FALSE]
    /\ wpc' = [wpc EXCEPT ![i] = "AwaitingStart"]
    /\ UNCHANGED <<cfgVars, mainVars, pipeVars, delta, last_timestamp,
                   last_cpustamp, clockVars, ticket, lseek_count,
                   seeker_report, wrote, nread, nstop, reaped, flushFailed, fileVars, diag>>

\* read(seek_control[0], seek_tickets, 1) returning 1: the byte leaves the pipe
TakeTicket(i) ==
    /\ seek_control # << >>
    /\ seek_control' = Tail(seek_control)
    /\ ticket' = [ticket EXCEPT ![i] = Head(seek_control)]
    /\ nread' = [nread EXCEPT ![i] = nread[i] + 1]
    /\ nstop' = [nstop EXCEPT ![i] =
                    nstop[i] + (IF Head(seek_control) = 0 THEN 1 ELSE 0)]
    /\ wpc' = [wpc EXCEPT ![i] =
                  IF KeepSeeking(Head(seek_control)) THEN "Seek" ELSE "Draining"]

\* lines 242-248: the go-ahead byte, timestamp(), the start time, the first
\* test of the loop condition
WorkerGoAhead(i) ==
    /\ wpc[i] = "AwaitingStart"
    /\ TakeTicket(i)
    /\ \E t0 \in TimeReads(now), c0 \in CpuReads(cpu[i]) :
        \E t1 \in TimeReads(t0) :
            /\ last_timestamp' = [last_timestamp EXCEPT ![i] = t0]
            /\ last_cpustamp' = [last_cpustamp EXCEPT ![i] = c0]
            /\ cpu' = [cpu EXCEPT ![i] = c0]
            /\ seeker_report' = [seeker_report EXCEPT ![i].StartTime = t1]
            /\ now' = t1
    /\ UNCHANGED <<cfgVars, mainVars, seek_feedback, delta, do_cleanup,
                   lseek_count, wrote, reaped, flushFailed, fileVars, diag>>

\* lines 250-251 and doseek, lines 671-696, with every call succeeding
WorkerProbe(i) ==
    /\ wpc[i] = "Seek"
    /\ wrote' = [wrote EXCEPT ![i] =
                    Append(wrote[i], DoseekWrites(Update(lseek_count[i]), do_write))]
    /\ lseek_count' = [lseek_count EXCEPT ![i] = lseek_count[i] + 1]
    /\ wpc' = [wpc EXCEPT ![i] = "ReadTicket"]
    /\ UNCHANGED <<cfgVars, mainVars, pipeVars, globVars, clockVars, ticket,
                   seeker_report, nread, nstop, reaped, flushFailed, fileVars, diag>>

\* lines 252-254 and 248: the next ticket and the loop condition
WorkerReadTicket(i) ==
    /\ wpc[i] = "ReadTicket"
    /\ TakeTicket(i)
    /\ UNCHANGED <<cfgVars, mainVars, seek_feedback, globVars, clockVars,
                   lseek_count, seeker_report, wrote, reaped, flushFailed, fileVars, diag>>

\* lines 255-258: fsync and close
WorkerDrain(i) ==
    /\ wpc[i] = "Draining"
    /\ wpc' = [wpc EXCEPT ![i] = "Reporting"]
    /\ UNCHANGED <<cfgVars, mainVars, pipeVars, globVars, clockVars, ticket,
                   lseek_count, seeker_report, wrote, nread, nstop, reaped, flushFailed,
                   fileVars, diag>>

\* lines 261-263: get_delta_t(whereto), the end time, the CPU figure
WorkerReport(i) ==
    /\ wpc[i] = "Reporting"
    /\ \E t1 \in TimeReads(now), c1 \in CpuReads(cpu[i]) :
        \E t2 \in TimeReads(t1) :
            LET tbl == get_delta_t(delta[i], whereto, t1, c1,
                                   last_timestamp[i], last_cpustamp[i])
            IN  /\ delta' = [delta EXCEPT ![i] = tbl]
                /\ cpu' = [cpu EXCEPT ![i] = c1]
                /\ now' = t2
                /\ seeker_report' = [seeker_report EXCEPT ![i] =
                                        [CPU |-> tbl[whereto].CPU,
                                         StartTime |-> seeker_report[i].StartTime,
                                         EndTime |-> t2]]
    /\ wpc' = [wpc EXCEPT ![i] = "Sending"]
    /\ UNCHANGED <<cfgVars, mainVars, pipeVars, do_cleanup, last_timestamp,
                   last_cpustamp, ticket, lseek_count, wrote, nread, nstop,
                   reaped, flushFailed, fileVars, diag>>

\* lines 264-266: the write of the report, which is shorter than PIPE_BUF and
\* so goes into the pipe in one piece (from: the sender, kept for the record)
WorkerSend(i) ==
    /\ wpc[i] = "Sending"
    /\ FeedbackHasReader
    /\ seek_feedback' = Append(seek_feedback,
                               [from |-> i, CPU |-> seeker_report[i].CPU,
                                StartTime |-> seeker_report[i].StartTime,
                                EndTime |-> seeker_report[i].EndTime])
    /\ wpc' = [wpc EXCEPT ![i] = "Exiting"]
    /\ UNCHANGED <<cfgVars, mainVars, seek_control, globVars, clockVars,
                   ticket, lseek_count, seeker_report, wrote, nread, nstop,
                   reaped, flushFailed, fileVars, diag>>

\* the memory of seeker i is gone once the process has ended (the counters
\* wrote, nread and nstop record what it did and stay)
Forget(i) ==
    /\ delta' = [delta EXCEPT ![i] = ZeroDelta]
    /\ do_cleanup' = [do_cleanup EXCEPT ![i] = TRUE]
    /\ last_timestamp' = [last_timestamp EXCEPT ![i] = 0]
    /\ last_cpustamp' = [last_cpustamp EXCEPT ![i] = 0]
    /\ cpu' = [cpu EXCEPT ![i] = 0]
    /\ ticket' = [ticket EXCEPT ![i] = 0]
    /\ lseek_count' = [lseek_count EXCEPT ![i] = 0]
    /\ seeker_report' = [seeker_report EXCEPT ![i] = NoReport]

\* line 267: exit(0); the atexit hook runs with the seeker's do_cleanup
WorkerExit(i) ==
    /\ wpc[i] = "Exiting"
    /\ wpc' = [wpc EXCEPT ![i] = "Terminated"]
    /\ fileExists' = CleanupFile(i)
    /\ reportOut' = CleanupReport(i)
    /\ Forget(i)
    /\ UNCHANGED <<cfgVars, pc, whereto, do_write, next, seek_tickets, written,
                   first_start, last_stop, received, returned, exitStatus,
                   pipeVars, now, wrote, nread, nstop, reaped, flushFailed, created, diag>>

\* ------------------------------------------------------ the specification
MainNext ==
    \/ CreateFile
    \/ FastWritePhase
    \/ ReWritePhase
    \/ FastReadPhase
    \/ BeginSeek
    \/ ForkWorker
    \/ StartEm
    \/ WriteTickets
    \/ ReadReport
    \/ WaitChild
    \/ SeekReturn
    \/ MainReturn

WorkerNext(i) ==
    \/ WorkerSetup(i)
    \/ WorkerGoAhead(i)
    \/ WorkerProbe(i)
    \/ WorkerReadTicket(i)
    \/ WorkerDrain(i)
    \/ WorkerReport(i)
    \/ WorkerSend(i)
    \/ WorkerExit(i)

\* a run in which no system call fails and no signal arrives
Next == MainNext \/ \E i \in Workers : WorkerNext(i)

Spec == Init /\ [][Next]_vars

\* ------------------------------------------------ failures and signals
\* io_error(message), lines 644-653, in the main process: the diagnostic,
\* then exit(1)
MainIoError(message) ==
    /\ diag' = diag \cup {message}
    /\ MainExit("exit1")
    /\ UNCHANGED <<cfgVars, whereto, do_write, next, seek_tickets, written,
                   first_start, last_stop, received, returned, pipeVars,
                   globVars, clockVars, workerVars, created>>

\* a failing call in newfile or in one of the sequential loops, lines 405-506
SeqPhaseFail ==
    /\ pc \in {"Create", "FastWrite", "ReWrite", "FastRead"}
    /\ MainIoError(pc)

\* lines 217-218: pipe() fails
PipeFail ==
    /\ pc \in {"Call1", "Call2"}
    /\ MainIoError("pipe")

\* lines 227-228: fork() fails
ForkFail ==
    /\ pc = "Fork"
    /\ MoreForks(next)
    /\ MainIoError("fork")

\* line 280: write(2) on a pipe that no process has open for reading raises
\* SIGPIPE, which the program leaves at its default: the process is killed
\* on the spot, and neither the atexit hook nor cleanup_sig runs
WriteSigpipe ==
    /\ pc = "Writing"
    /\ ~ControlHasReader
    /\ pc' = "Gone"
    /\ exitStatus' = "SIGPIPE"
    /\ UNCHANGED <<cfgVars, whereto, do_write, next, seek_tickets, written,
                   first_start, last_stop, received, returned, reportOut,
                   pipeVars, globVars, clockVars, workerVars, fileVars, diag>>

\* lines 280-282: the same write in a process that was started with SIGPIPE
\* ignored: write(2) fails with EPIPE, or returns short of the whole buffer
WriteFail ==
    /\ pc = "Writing"
    /\ ~ControlHasReader
    /\ MainIoError("write tickets")

\* lines 287-289: read(2) returns 0 on an empty pipe that no process has open
\* for writing
ReadReportEOF ==
    /\ pc = "Collect"
    /\ MoreReports(next)
    /\ seek_feedback = << >>
    /\ ~FeedbackHasWriter
    /\ MainIoError("pipe read")

\* lines 177-182 and 344-355: SIGINT, SIGTERM or SIGQUIT reaches the main
\* process: cleanup(), then the signal again with its default action
MainSignal ==
    /\ ~MainGone
    /\ fileExists' = CleanupFile(Main)
    /\ reportOut' = CleanupReport(Main)
    /\ exitStatus' = "signal"
    /\ pc' = "Gone"
    /\ UNCHANGED <<cfgVars, whereto, do_write, next, seek_tickets, written,
                   first_start, last_stop, received, returned, pipeVars,
                   globVars, clockVars, workerVars, created, diag>>

\* io_error(message) in seeker i: the diagnostic, then exit(1), whose atexit
\* hook runs with the seeker's do_cleanup, which line 232 has cleared
WorkerIoError(i, message) ==
    /\ Alive(i)
    /\ diag' = diag \cup {message}
    /\ wpc' = [wpc EXCEPT ![i] = "Failed"]
    /\ Forget(i)
    /\ UNCHANGED <<cfgVars, mainVars, pipeVars, now, wrote, nread, nstop,
                   reaped, flushFailed, fileVars>>

\* lines 237 and 565-568: the seeker cannot open the test file
WorkerOpenFail(i) ==
    /\ wpc[i] = "Spawned"
    /\ WorkerIoError(i, "open")

\* lines 678-681: lseek or read fails in doseek
WorkerProbeFail(i) ==
    /\ wpc[i] = "Seek"
    /\ WorkerIoError(i, "doseek")

\* lines 255-256: fsync after the loop fails: perror, and the seeker goes on
\* to close the file (which succeeds) and to report
WorkerFsyncFail(i) ==
    /\ wpc[i] = "Draining"
    /\ diag' = diag \cup {"fsync after seek"}
    /\ flushFailed' = [flushFailed EXCEPT ![i] = TRUE]
    /\ wpc' = [wpc EXCEPT ![i] = "Reporting"]
    /\ UNCHANGED <<cfgVars, mainVars, pipeVars, globVars, clockVars, ticket,
                   lseek_count, seeker_report, wrote, nread, nstop, reaped,
                   fileVars>>

\* lines 257-258: close after the loop fails
WorkerCloseFail(i) ==
    /\ wpc[i] = "Draining"
    /\ WorkerIoError(i, "close after seek")

\* lines 242-243 and 252-253: read(2) returns 0 on an empty control pipe that
\* no process has open for writing
WorkerReadEOF(i) ==
    /\ wpc[i] \in {"AwaitingStart", "ReadTicket"}
    /\ seek_control = << >>
    /\ ~ControlHasWriter
    /\ WorkerIoError(i, "read ticket")

\* line 264: the report is written to a pipe nobody reads: SIGPIPE
WorkerSendSigpipe(i) ==
    /\ wpc[i] = "Sending"
    /\ ~FeedbackHasReader
    /\ wpc' = [wpc EXCEPT ![i] = "Killed"]
    /\ Forget(i)
    /\ UNCHANGED <<cfgVars, mainVars, pipeVars, now, wrote, nread, nstop,
                   reaped, flushFailed, fileVars, diag>>

\* SIGINT, SIGTERM or SIGQUIT reaches seeker i, which has inherited
\* cleanup_sig: cleanup() with the seeker's do_cleanup, then the default action
WorkerSignal(i) ==
    /\ Alive(i)
    /\ fileExists' = CleanupFile(i)
    /\ reportOut' = CleanupReport(i)
    /\ wpc' = [wpc EXCEPT ![i] = "Killed"]
    /\ Forget(i)
    /\ UNCHANGED <<cfgVars, pc, whereto, do_write, next, seek_tickets, written,
                   first_start, last_stop, received, returned, exitStatus,
                   pipeVars, now, wrote, nread, nstop, reaped, flushFailed, created, diag>>

MainFail ==
    \/ SeqPhaseFail
    \/ PipeFail
    \/ ForkFail
    \/ WriteSigpipe
    \/ WriteFail
    \/ ReadReportEOF
    \/ MainSignal

WorkerFail(i) ==
    \/ WorkerOpenFail(i)
    \/ WorkerProbeFail(i)
    \/ WorkerFsyncFail(i)
    \/ WorkerCloseFail(i)
    \/ WorkerReadEOF(i)
    \/ WorkerSendSigpipe(i)
    \/ WorkerSignal(i)

\* a run in which calls may fail and signals may arrive
NextFail == Next \/ MainFail \/ \E i \in Workers : WorkerFail(i)

\* the runs of SeekProcCount seekers with coarse clocks
InitFail == InitCoarse /\ workerCount = SeekProcCount

SpecFail == InitFail /\ [][NextFail]_vars

\* ----------------------------------------------- the position of a probe
\* values of random(), which are in 0..2^31-1: the ends of the range, the
\* powers of two and their neighbours, and some values in between
Randoms ==
    {0, 2147483647, 2147483646, 123456789, 987654321, 2000000011}
      \cup {2^k : k \in 0..30}
      \cup {2^k - 1 : k \in 0..30}
      \cup {2^k + 1 : k \in 0..30}
      \cup {3 * 2^k + 5 : k \in 0..29}

\* lines 250 and 677: one draw of random() and the position doseek seeks
\* to, for the first probe
SeekPosition ==
    /\ rnd = 0 /\ where = Zero /\ probe = Zero
    /\ \E r \in Randoms :
        LET w == SeekWhere(r, file_size, long_bits) IN
            /\ rnd' = r
            /\ where' = w
            /\ probe' = Probe(w)
    /\ UNCHANGED <<operationCount, workerCount, clockMax, cpuMax, argVars,
                   long_bits, mainVars, pipeVars, globVars, clockVars,
                   workerVars, fileVars, diag>>

\* a seeker's file of 1..MaxGB gigabytes or of the default size, in a build
\* with a 64-bit or a 32-bit long
InitOffset ==
    /\ operationCount = 0
    /\ workerCount = SeekProcCount
    /\ clockMax = 0
    /\ cpuMax = 0
    /\ pc = "Create"
    /\ InitRest
    /\ argv = << >>
    /\ file_size \in (1..MaxGB) \cup {DefaultSize}
    /\ long_bits \in {32, 64}
    /\ rnd = 0
    /\ where = Zero
    /\ probe = Zero

SpecOffset == InitOffset /\ [][SeekPosition]_vars

\* ------------------------------------------------- main: the arguments
\* The arguments looked at: the four options, a flag the program does not
\* know, a negative number, zero, a positive number and a plain word.
Tokens == {"-d", "-s", "-m", "-r", "-x", "-1", "0", "5", "w"}
ArgVectors == UNION {[1..n -> Tokens] : n \in 0..MaxArgs}

\* line 362: argv[next][0] == '-'
IsOption(tok) == tok \in {"-d", "-s", "-m", "-r", "-x", "-1"}

\* lines 364-370: the strcmp chain
Recognized(tok) == tok \in {"-d", "-s", "-m", "-r"}

\* atoll(3): the leading decimal number, 0 if there is none
Atoll(tok) == IF tok = "5" THEN 5 ELSE IF tok = "-1" THEN 0 - 1 ELSE 0

\* line 361: next < argc - 1, where argc is Len(argv) + 1
MoreArgs(n) == n < Len(argv)

\* usage(), lines 574-580: the message, then exit(1)
Usage ==
    /\ diag' = diag \cup {"usage"}
    /\ MainExit("exit1")
    /\ UNCHANGED <<operationCount, workerCount, clockMax, cpuMax, argVars,
                   posVars, whereto, do_write, next, seek_tickets, written,
                   first_start, last_stop, received, returned, pipeVars,
                   globVars, clockVars, workerVars, created>>

\* lines 340-361: atexit, the signal handlers, and the loop's next = 1
BeginArgs ==
    /\ pc = "Start"
    /\ pc' = "Args"
    /\ next' = 1
    /\ UNCHANGED <<cfgVars, whereto, do_write, seek_tickets, written,
                   first_start, last_stop, received, returned, exitStatus,
                   reportOut, pipeVars, globVars, clockVars, workerVars,
                   fileVars, diag>>

\* lines 362-373: an option the program knows; the argument after it is its
\* value (after -r too) and is stepped over
ParseOption ==
    /\ pc = "Args"
    /\ MoreArgs(next)
    /\ IsOption(argv[next])
    /\ Recognized(argv[next])
    /\ file_size' = IF argv[next] = "-s" THEN Atoll(argv[next + 1])
                    ELSE file_size
    /\ next' = next + 2
    /\ UNCHANGED <<operationCount, workerCount, clockMax, cpuMax, argv,
                   posVars, pc, whereto, do_write, seek_tickets, written,
                   first_start, last_stop, received, returned, exitStatus,
                   reportOut, pipeVars, globVars, clockVars, workerVars,
                   fileVars, diag>>

\* lines 371-376: an option the program does not know, or a word where an
\* option is expected
ParseUsage ==
    /\ pc = "Args"
    /\ MoreArgs(next)
    /\ ~(IsOption(argv[next]) /\ Recognized(argv[next]))
    /\ Usage

\* lines 378-379: the loop is over and file_size < 1
SizeUsage ==
    /\ pc = "Args"
    /\ ~MoreArgs(next)
    /\ file_size < 1
    /\ Usage

\* lines 378-405: the loop is over and the size is fine; the first phase
\* is next
ArgsDone ==
    /\ pc = "Args"
    /\ ~MoreArgs(next)
    /\ ~(file_size < 1)
    /\ pc' = "Create"
    /\ UNCHANGED <<cfgVars, whereto, do_write, next, seek_tickets, written,
                   first_start, last_stop, received, returned, exitStatus,
                   reportOut, pipeVars, globVars, clockVars, workerVars,
                   fileVars, diag>>

ArgsNext ==
    \/ BeginArgs
    \/ ParseOption
    \/ ParseUsage
    \/ SizeUsage
    \/ ArgsDone

\* the program started with any of the argument lists
InitArgv ==
    /\ operationCount = 0
    /\ workerCount = SeekProcCount
    /\ clockMax = 0
    /\ cpuMax = 0
    /\ pc = "Start"
    /\ InitRest
    /\ argv \in ArgVectors
    /\ file_size = DefaultSize
    /\ InitPos

\* main from its start to the first phase
SpecArgs == InitArgv /\ [][ArgsNext]_vars

\* weak fairness on the main process and on every seeker: a process that can
\* take a step is scheduled sooner or later
FairSpec ==
    /\ InitCoarse /\ [][Next]_vars
    /\ WF_vars(MainNext)
    /\ \A i \in Workers : WF_vars(WorkerNext(i))

\* ----------------------------------------------------- notions of the claims
\* do_seekstuff has returned and main has not moved on yet
JustReturned == pc \in {"Call2", "Return"}

\* probes (doseek calls) made by seeker i in the current call
Probes(i) == Len(wrote[i])
ProbesDone == SumOver([i \in Workers |-> Probes(i)], Active)
TicketsRead == SumOver(nread, Active)

RECURSIVE SeqSum(_)
SeqSum(q) == IF q = << >> THEN 0 ELSE Head(q) + SeqSum(Tail(q))

SeqOf(q, field) == [k \in 1..Len(q) |-> q[k][field]]
RangeOf(q) == {q[k] : k \in 1..Len(q)}
MaxOf(S) == CHOOSE x \in S : \A y \in S : y <= x
MinOf(S) == CHOOSE x \in S : \A y \in S : x <= y

\* --------------------------------------------------------------------- C1
\* C1: with no failing call, the probes of all seekers together never exceed
\* operationCount and are exactly operationCount when do_seekstuff returns;
\* every byte of the ticket buffer is either still unwritten, in the pipe, or
\* was read by exactly one seeker, and every perform byte a seeker has read
\* (its go-ahead byte included) stands for one probe made or about to be made.
C1_TicketsExact ==
    /\ ProbesDone <= operationCount
    /\ JustReturned => ProbesDone = operationCount
    /\ TicketsRead + Len(seek_control) + (Len(seek_tickets) - written)
         = Len(seek_tickets)
    /\ \A i \in Active :
         nread[i] - nstop[i] = Probes(i) + (IF wpc[i] = "Seek" THEN 1 ELSE 0)

\* the tickets of a returned call were shared between two seekers, one of
\* which got a perform ticket as its go-ahead byte
C1_Witness ==
    /\ JustReturned
    /\ operationCount >= 2
    /\ \E i, j \in Active : i # j /\ Probes(i) >= 1 /\ Probes(j) >= 1

\* --------------------------------------------------------------------- C2
\* C2: do_seekstuff never holds more than workerCount reports, never two
\* of one seeker, and has exactly one of every seeker when it returns, with
\* nothing left in the feedback pipe.
C2_ReportsExact ==
    /\ Len(received) <= workerCount
    /\ \A k, l \in 1..Len(received) :
         received[k].from = received[l].from => k = l
    /\ JustReturned =>
         /\ Len(received) = workerCount
         /\ {received[k].from : k \in 1..Len(received)} = Active
         /\ seek_feedback = << >>

\* a returned call that read the reports in another order than the seekers
\* were forked in
C2_Witness ==
    /\ JustReturned
    /\ workerCount = SeekProcCount
    /\ received[1].from # 1
    /\ received[workerCount].from # workerCount

\* --------------------------------------------------------------------- C3
\* C3: a seeker reads at most one stop ticket, and exactly one by the time
\* do_seekstuff returns; once it has read it, it is past its loop (it makes
\* no further probe: its probes are the perform tickets it read before) and
\* the stop ticket is the last byte it has read.
PastLoop == {"Draining", "Reporting", "Sending", "Exiting", "Terminated"}

C3_OneStopEach ==
    \A i \in Active :
        /\ nstop[i] <= 1
        /\ JustReturned => nstop[i] = 1
        /\ nstop[i] = 1 =>
             /\ wpc[i] \in PastLoop
             /\ nread[i] = Probes(i) + 1
        /\ wpc[i] \in PastLoop => nstop[i] = 1

\* a seeker has probed, then read its stop ticket, while another is still
\* in its loop
C3_Witness ==
    \E i, j \in Active :
        /\ nstop[i] = 1 /\ Probes(i) >= 1
        /\ wpc[j] \in {"Seek", "ReadTicket"}

\* --------------------------------------------------------------------- C4
\* C4: with the ticket buffer larger than the control pipe, so that the
\* write blocks until seekers drain the pipe, and under weak fairness, every
\* call of do_seekstuff that has forked its seekers returns with all of them
\* terminated, and no state short of the end of the run is a deadlock.
AllTerminated == \A i \in Active : wpc[i] = "Terminated"

C4_Terminates ==
    /\ [](pc # "Gone" => ENABLED Next)
    /\ \A ph \in {"Lseek", "Lseek2"} :
         (pc = "Writing" /\ whereto = ph)
            ~> (ph \in returned /\ AllTerminated)
    /\ <>(pc = "Gone")

\* the write of the tickets is blocked on a full pipe with bytes left to go
C4_Witness ==
    /\ pc = "Writing"
    /\ Len(seek_control) = PipeCap
    /\ written < Len(seek_tickets)

\* --------------------------------------------------------------------- C5
\* C5: when do_seekstuff returns, the phase's Elapsed is the largest EndTime
\* minus the smallest StartTime of the reports received, whatever their
\* order; it is not negative and not below any seeker's own span.
C5_ElapsedSpan ==
    JustReturned =>
        /\ delta[Main][whereto].Elapsed
             = MaxOf(RangeOf(SeqOf(received, "EndTime")))
               - MinOf(RangeOf(SeqOf(received, "StartTime")))
        /\ delta[Main][whereto].Elapsed >= 0
        /\ \A k \in 1..Len(received) :
             /\ received[k].EndTime >= received[k].StartTime
             /\ delta[Main][whereto].Elapsed
                  >= received[k].EndTime - received[k].StartTime

\* the report with the earliest start was not the first to arrive, the
\* last to arrive did not have the latest end, and the span is positive
C5_Witness ==
    /\ JustReturned
    /\ Len(received) = SeekProcCount
    /\ received[1].StartTime > received[2].StartTime
    /\ received[3].EndTime < received[2].EndTime
    /\ delta[Main][whereto].Elapsed > 0

\* --------------------------------------------------------------------- C6
\* C6: when do_seekstuff returns, the phase's CPU figure in the main process
\* is the sum of the CPU fields of the reports received in that call, in the
\* read-only phase and in the read-write phase; and the CPU field a seeker
\* sends is its CPU time at the end checkpoint minus that at the start one.
C6_CpuSum ==
    /\ JustReturned =>
         delta[Main][whereto].CPU = SeqSum(SeqOf(received, "CPU"))
    /\ \A i \in Active :
         /\ wpc[i] \in {"Sending", "Exiting"} =>
               seeker_report[i].CPU = cpu[i] - last_cpustamp[i]
         /\ wpc[i] = "Exiting" =>
             \E k \in 1..Len(seek_feedback \o received) :
                 LET r == (seek_feedback \o received)[k] IN
                   r.from = i /\ r.CPU = seeker_report[i].CPU

\* the second call has returned with a positive sum to which more than
\* one seeker contributed, after a first call with a positive sum too
C6_Witness ==
    /\ pc = "Return"
    /\ delta[Main]["Lseek"].CPU >= 1
    /\ delta[Main]["Lseek2"].CPU >= 2

\* --------------------------------------------------------------------- C7
\* C7: in every window of UpdateSeek consecutive probes of one seeker,
\* exactly one probe writes back when the phase allows writes and none does
\* when it does not; the k-th probe of a seeker writes exactly when the
\* phase allows writes and k - 1 is a multiple of UpdateSeek, whatever the
\* other seekers did.
WritesIn(q, from, to) == Cardinality({k \in from..to : q[k]})

C7_DutyCycle ==
    \A i \in Active :
        /\ \A k \in 1..Probes(i) :
             wrote[i][k] = (do_write /\ (k - 1) % UpdateSeek = 0)
        /\ \A k \in 1..(Probes(i) - UpdateSeek + 1) :
             WritesIn(wrote[i], k, k + UpdateSeek - 1)
                = (IF do_write THEN 1 ELSE 0)

\* a seeker of the read-write phase has made more than UpdateSeek probes,
\* the last of which wrote back
C7_Witness ==
    \E i \in Active :
        /\ do_write
        /\ Probes(i) > UpdateSeek
        /\ wrote[i][Probes(i)]

\* --------------------------------------------------------------------- C8
\* seeker i has ended by io_error or by a signal and no report of it exists
Reports == seek_feedback \o received
Abnormal(i) ==
    /\ wpc[i] \in {"Failed", "Killed"}
    /\ \A k \in 1..Len(Reports) : Reports[k].from # i

\* C8: if a seeker ends abnormally without sending its report, do_seekstuff
\* does not return as if the phase had succeeded, and the main process
\* (unless SIGINT, SIGTERM or SIGQUIT ends it first) ends with a diagnostic
\* and exit status 1.
C8_WorkerFailureFatal ==
    /\ (\E i \in Active : Abnormal(i)) => ~JustReturned
    /\ (MainGone /\ exitStatus # "signal" /\ \E i \in Active : Abnormal(i))
          => (exitStatus = "exit1" /\ diag # {})

\* --------------------------------------------------------------------- C9
\* C9: once the main process is gone, whichever way it ended, every seeker
\* it forked has ended and has been waited for.
C9_NoOrphans ==
    MainGone => \A i \in Active : wpc[i] = "none" \/ reaped[i]

\* -------------------------------------------------------------------- C10
\* C10: once the main process is gone, whichever way it ended, a test file
\* it had created is no longer there.
C10_FileRemoved ==
    (MainGone /\ created) => ~fileExists

\* -------------------------------------------------------------------- C11
\* a report of seeker i is in the feedback pipe or has been read by main
HasReported(i) == \E k \in 1..Len(Reports) : Reports[k].from = i

\* C11: a seeker that had a call on the test file fail (in a probe, or the
\* fsync or the close after its loop) ends with a non-zero status and sends
\* no report, and the main process does not end with status 0.
C11_WorkerIoFatal ==
    /\ \A i \in Active :
         (flushFailed[i] \/ wpc[i] = "Failed") =>
             /\ ~HasReported(i)
             /\ wpc[i] \notin {"Sending", "Exiting", "Terminated"}
    /\ (MainGone /\ \E i \in Active : flushFailed[i] \/ wpc[i] = "Failed")
          => exitStatus # "exit0"

\* -------------------------------------------------------------------- C12
\* the main process has stored the pair of phase t: a seek phase's when its
\* do_seekstuff call has returned, a sequential phase's (which takes a tick
\* of wall time and of CPU time) when get_delta_t has stored it
Populated(t) ==
    IF t \in {"Lseek", "Lseek2"} THEN t \in returned
    ELSE delta[Main][t] # ZeroDelta[t]

\* C12: the main process stores a phase's pair once the phase's work is
\* done (nothing of a seek phase's pair is stored as long as it has seen no
\* report), and every table the main process prints, whichever way it ends,
\* shows only phases whose pair has been stored.
C12_PopulatedBeforeReport ==
    /\ \A t \in {"Lseek", "Lseek2"} :
         (t \notin returned /\ (whereto # t \/ received = << >>))
            => delta[Main][t] = ZeroDelta[t]
    /\ \A k \in 1..Len(reportOut) :
         reportOut[k].by = Main => \A t \in Reported : Populated(t)

\* -------------------------------------------------------------------- C13
\* C13: once a seeker of the current do_seekstuff call has ended without a
\* report, the pair of that phase in the main process stays what it was
\* before the call (zero), and the main process prints no table (every
\* table contains the phase).
C13_NoPartialResult ==
    (whereto \in {"Lseek", "Lseek2"} /\ \E i \in Active : Abnormal(i)) =>
        /\ whereto \notin returned
        /\ delta[Main][whereto] = ZeroDelta[whereto]
        /\ \A k \in 1..Len(reportOut) : reportOut[k].by # Main

\* -------------------------------------------------------------------- C14
\* C14: for a value r of random() and a file of file_size gigabytes, the
\* product r * 0xFFFFFFFF is below 2^63 (a 64-bit long does not overflow);
\* where is the product modulo the size in bytes and is below that size;
\* probe is a multiple of Chunk, is at most where, less than Chunk below it,
\* and probe + Chunk is at most the size.
C14_OffsetInRange ==
    LET size == FileBytes(file_size)
        p == MulWide(Wide(rnd), Multiplier)
        q == DivSmall(ShiftDown(p, 2), file_size)
    IN  /\ p[5] < 8
        /\ long_bits = 64 => AddWide(MulWide(q, size), where) = p
        /\ \A k \in Limbs : where[k] \in 0..(LimbBase - 1)
        /\ Less(where, size)
        /\ ModSmall(probe, Chunk) = 0
        /\ ~Less(where, probe)
        /\ Less(where, AddWide(probe, Wide(Chunk)))
        /\ ~Less(size, AddWide(probe, Wide(Chunk)))

\* the largest value of random() with the default size: the product is
\* reduced, and where is not on a block boundary
C14_Witness ==
    /\ rnd = 2147483647
    /\ long_bits = 64
    /\ file_size = DefaultSize
    /\ MulWide(Wide(rnd), Multiplier) # where
    /\ where # probe
    /\ probe # Zero

\* -------------------------------------------------------------------- C15
\* the argument list has a flag the program does not know, or a -s whose
\* value is not a positive integer
BadArgs ==
    \/ \E k \in 1..Len(argv) : argv[k] = "-x"
    \/ \E k \in 1..(Len(argv) - 1) : argv[k] = "-s" /\ argv[k + 1] # "5"

\* C15: with such an argument list, wherever the offending argument is, the
\* program does not get to its first phase, and ends with the usage message
\* and status 1.
C15_UsageOnBadArgs ==
    BadArgs =>
        /\ pc \in {"Start", "Args", "Gone"}
        /\ pc = "Gone" => (exitStatus = "exit1" /\ "usage" \in diag)

\* -------------------------------------------------------------------- C16
\* some seeker of the current call has read a stop ticket
StopDelivered == \E i \in Active : nstop[i] >= 1

\* the tickets of the current call that no seeker has read yet, in the
\* order in which they will be read
Undelivered ==
    seek_control \o SubSeq(seek_tickets, written + 1, Len(seek_tickets))

\* the seekers that have read a perform ticket and not yet made its probe
ProbePending == {i \in Active : wpc[i] = "Seek"}

\* a step of the current do_seekstuff call (not the start of the next)
SameCall == pc \notin {"Call1", "Call2"}

\* C16 as stated: once a seeker has read a stop ticket, no seeker reads a
\* perform ticket and no probe is made any more.
C16_NoProbeAfterStop ==
    [][(StopDelivered /\ SameCall) =>
          \A i \in Workers :
              /\ nread'[i] - nstop'[i] = nread[i] - nstop[i]
              /\ Len(wrote'[i]) = Len(wrote[i])]_vars

\* C16, amended: the tickets not yet read are perform tickets followed by
\* stop tickets, operationCount + workerCount in all with those read; once
\* a seeker has read a stop ticket only stop tickets are left, no seeker
\* reads a perform ticket any more, and the only probes still made are those
\* of perform tickets read before, at most workerCount - 1 of them.
C16_TicketOrder ==
    /\ [](\A j, k \in 1..Len(Undelivered) :
             (j < k /\ Undelivered[j] = 0) => Undelivered[k] = 0)
    /\ [](pc \in {"Writing", "Collect", "Wait"} =>
             /\ seek_tickets
                  = Repeat(1, operationCount) \o Repeat(0, workerCount)
             /\ TicketsRead + Len(Undelivered) = operationCount + workerCount)
    /\ [](StopDelivered =>
             /\ \A k \in 1..Len(Undelivered) : Undelivered[k] = 0
             /\ Cardinality(ProbePending) <= workerCount - 1
             /\ ProbesDone + Cardinality(ProbePending) = operationCount)
    /\ [][(StopDelivered /\ SameCall) =>
            \A i \in Workers :
                /\ nread'[i] - nstop'[i] = nread[i] - nstop[i]
                /\ Len(wrote'[i]) > Len(wrote[i]) => i \in ProbePending]_vars

\* a seeker has read a stop ticket while two others have a probe to make
C16_Witness ==
    /\ StopDelivered
    /\ Cardinality(ProbePending) = 2

\* -------------------------------------------------------------------- C17
\* the main process has entered the write of the tickets in its latest
\* do_seekstuff call
GateReleased ==
    \/ pc \in {"Writing", "Collect", "Wait"}
    \/ JustReturned
    \/ (MainGone /\ returned = {"Lseek", "Lseek2"})

\* C17: a seeker that is past AwaitingStart has read a byte that the main
\* process wrote after entering its write; the main process enters the
\* write only when workerCount seekers have been forked; a seeker in
\* Spawned or AwaitingStart has read nothing, has taken no checkpoint and
\* made no probe, and leaves AwaitingStart only by reading a byte from the
\* control pipe.
C17_StartGate ==
    /\ [](\A i \in Active :
            /\ wpc[i] \notin {"none", "Spawned", "AwaitingStart"} =>
                  (GateReleased /\ written >= 1 /\ nread[i] >= 1)
            /\ wpc[i] \in {"Spawned", "AwaitingStart"} =>
                  /\ nread[i] = 0
                  /\ Probes(i) = 0
                  /\ seeker_report[i] = NoReport
                  /\ last_timestamp[i] = last_timestamp[Main]
                  /\ last_cpustamp[i] = last_cpustamp[Main])
    /\ [](GateReleased => \A i \in Active : wpc[i] # "none")
    /\ [][\A i \in Workers :
            (wpc[i] = "AwaitingStart" /\ wpc'[i] # "AwaitingStart") =>
                /\ seek_control # << >>
                /\ seek_control' = Tail(seek_control)
                /\ nread'[i] = 1]_vars

\* the gate is open and a seeker is seeking while another has not even
\* opened the file
C17_Witness ==
    \E i, j \in Active :
        /\ wpc[i] = "Spawned"
        /\ wpc[j] = "Seek"
        /\ pc = "Writing"

\* -------------------------------------------------------------------- C18
\* The states of the claim: Running is Seek (a probe to make) and ReadTicket
\* (the next ticket to read); Reporting is Reporting (the end checkpoint to
\* take), Sending (the report to write) and Exiting.
StateOrder ==
    {<<"none", "Spawned">>, <<"Spawned", "AwaitingStart">>,
     <<"AwaitingStart", "Seek">>, <<"AwaitingStart", "Draining">>,
     <<"Seek", "ReadTicket">>, <<"ReadTicket", "Seek">>,
     <<"ReadTicket", "Draining">>, <<"Draining", "Reporting">>,
     <<"Reporting", "Sending">>, <<"Sending", "Exiting">>,
     <<"Exiting", "Terminated">>, <<"Terminated", "none">>}

ReportsOf(i) == Cardinality({k \in 1..Len(Reports) : Reports[k].from = i})

\* C18: a seeker changes state only along Spawned, AwaitingStart, Running,
\* Draining, Reporting, Terminated (Running is left out by a seeker whose
\* first ticket is a stop ticket); the step out of AwaitingStart reads the
\* go-ahead byte and takes the start checkpoint, before any probe, and the
\* start time is not touched again; the end time is taken in the step after
\* Draining, with the stop ticket read; the seeker writes one report, with
\* these times, after that step and before it exits.
C18_WorkerOrder ==
    /\ [][\A i \in Workers :
            /\ wpc'[i] # wpc[i] => <<wpc[i], wpc'[i]>> \in StateOrder
            /\ (wpc[i] = "AwaitingStart" /\ wpc'[i] # wpc[i]) =>
                  /\ nread[i] = 0 /\ nread'[i] = 1
                  /\ Len(wrote'[i]) = 0
                  /\ seeker_report'[i].StartTime \in now..now'
                  /\ last_timestamp'[i] \in now..now'
            /\ wpc[i] \in {"Seek", "ReadTicket", "Draining", "Reporting",
                            "Sending"} =>
                  seeker_report'[i].StartTime = seeker_report[i].StartTime
            /\ (wpc[i] \in {"Seek", "ReadTicket", "Draining", "Sending"}
                  \/ wpc'[i] = "Reporting") =>
                  seeker_report'[i].EndTime = seeker_report[i].EndTime
            /\ (wpc[i] = "Reporting" /\ wpc'[i] = "Sending") =>
                  seeker_report'[i].EndTime \in now..now']_vars
    /\ [](\A i \in Active :
            /\ wpc[i] \in {"Draining", "Reporting", "Sending", "Exiting",
                            "Terminated"} => nstop[i] = 1
            /\ wpc[i] \in {"Sending", "Exiting"} =>
                  seeker_report[i].EndTime >= seeker_report[i].StartTime
            /\ ReportsOf(i)
                  = (IF wpc[i] \in {"Exiting", "Terminated"} THEN 1 ELSE 0)
            /\ wpc[i] = "Exiting" =>
                  \E k \in 1..Len(Reports) :
                      /\ Reports[k].from = i
                      /\ Reports[k].StartTime = seeker_report[i].StartTime
                      /\ Reports[k].EndTime = seeker_report[i].EndTime)

\* a seeker whose first ticket was a stop ticket has made no probe, has
\* reported a start checkpoint and a later end checkpoint, and has terminated
C18_Witness ==
    \E i \in Active :
        /\ wpc[i] = "Terminated" /\ Probes(i) = 0 /\ nread[i] = 1
        /\ \E k \in 1..Len(Reports) :
              /\ Reports[k].from = i
              /\ Reports[k].EndTime > Reports[k].StartTime

\* -------------------------------------------------------------------- C19
\* C19: the test file is removed and a table is printed only in the step
\* that ends the main process, never in a step of a seeker, whichever way
\* the seeker ends; no table is a seeker's.
C19_WorkerNeverCleans ==
    /\ [][((fileExists /\ ~fileExists') \/ reportOut' # reportOut) =>
            (pc # "Gone" /\ pc' = "Gone")]_vars
    /\ [](\A k \in 1..Len(reportOut) : reportOut[k].by = Main)

\* -------------------------------------------------------------------- C20
\* n / UpdateSeek, rounded up
DutyCycles(n) == (n + UpdateSeek - 1) \div UpdateSeek

\* write-backs of seeker i, and of all seekers, in the current call
WriteBacks(i) == WritesIn(wrote[i], 1, Probes(i))
TotalWriteBacks == SumOver([i \in Workers |-> WriteBacks(i)], Active)

\* C20: in the phase with writes a seeker that has made n probes has made
\* n / UpdateSeek write-backs, rounded up, its first probe being one; in the
\* phase without writes none.  The write-backs of all seekers are at least
\* those of one seeker making all the probes made so far and at most
\* workerCount - 1 more, and so for the operationCount probes of a call
\* that has returned.
C20_WriteBacks ==
    /\ \A i \in Active :
         /\ WriteBacks(i) = (IF do_write THEN DutyCycles(Probes(i)) ELSE 0)
         /\ (do_write /\ Probes(i) >= 1) => wrote[i][1]
    /\ do_write =>
         /\ TotalWriteBacks >= DutyCycles(ProbesDone)
         /\ TotalWriteBacks <= DutyCycles(ProbesDone) + workerCount - 1
    /\ (do_write /\ JustReturned) =>
         /\ TotalWriteBacks >= DutyCycles(operationCount)
         /\ TotalWriteBacks <= DutyCycles(operationCount) + workerCount - 1

\* the call with writes has returned and the probes, split over two
\* seekers, took more write-backs than one seeker would have made
C20_Witness ==
    /\ do_write
    /\ JustReturned
    /\ TotalWriteBacks > DutyCycles(operationCount)
    /\ TotalWriteBacks > operationCount \div UpdateSeek

\* -------------------------------------------------------------------- C21
\* the main process is in do_seekstuff, from the call to the return
InSeekPhase == pc \in {"Call1", "Call2", "Fork", "Writing", "Collect", "Wait"}

\* C21: a step taken while the main process is in do_seekstuff leaves the
\* pairs of all phases but the one of the call as they are in the main
\* process, and its checkpoints and its do_cleanup too; that phase's pair
\* changes only in a step of the main process itself: by the CPU field of
\* the report it takes from the feedback pipe, or, at the return, to the
\* span of the reports it has read.  What a seeker stores in its own delta
\* table and checkpoints changes nothing in the main process.
C21_FrameEffect ==
    [][InSeekPhase =>
         /\ \A t \in Tests :
              t # whereto' => delta'[Main][t] = delta[Main][t]
         /\ last_timestamp'[Main] = last_timestamp[Main]
         /\ last_cpustamp'[Main] = last_cpustamp[Main]
         /\ do_cleanup'[Main] = do_cleanup[Main]
         /\ delta'[Main] # delta[Main] =>
              /\ pc = "Collect"
              /\ whereto' = whereto
              /\ \/ /\ pc' = "Wait"
                    /\ seek_feedback # << >>
                    /\ delta'[Main][whereto].CPU
                         = delta[Main][whereto].CPU + Head(seek_feedback).CPU
                    /\ delta'[Main][whereto].Elapsed
                         = delta[Main][whereto].Elapsed
                 \/ /\ JustReturned'
                    /\ delta'[Main][whereto].CPU = delta[Main][whereto].CPU
                    /\ delta'[Main][whereto].Elapsed = last_stop - first_start
         /\ \A i \in Workers :
              (delta'[i] # delta[i] \/ last_timestamp'[i] # last_timestamp[i]
                 \/ last_cpustamp'[i] # last_cpustamp[i]
                 \/ do_cleanup'[i] # do_cleanup[i])
                => delta'[Main] = delta[Main]]_vars

\* in the second seek phase a seeker has taken a checkpoint and stored a
\* pair in its own table that the main process does not have, and the main
\* process has the pairs of the sequential phases
C21_Witness ==
    /\ whereto = "Lseek2"
    /\ pc \in {"Writing", "Collect", "Wait"}
    /\ \E i \in Active :
          /\ wpc[i] = "Sending"
          /\ delta[i]["Lseek2"] # delta[Main]["Lseek2"]
          /\ last_timestamp[i] # last_timestamp[Main]
    /\ \A t \in {"FastWrite", "ReWrite", "FastRead"} :
          delta[Main][t] # ZeroDelta[t]

====
